---------------------------- MODULE Spec2Model ----------------------------
(***************************************************************************)
(* Model of scripts/gen-endpoints.py: the recursive extract routine that   *)
(* flattens a discovery document into fixed-width endpoint rows, and the   *)
(* main routine that loads the document, extracts, writes the index file   *)
(* and prints the count.                                                   *)
(*                                                                         *)
(* Strings are sequences of code points, so that Python's string order,    *)
(* concatenation, padding and decimal formatting are computed rather than  *)
(* assumed.  A JSON object with a fixed vocabulary of keys (a resource     *)
(* node, a method spec, the document root) is a record whose DOMAIN holds  *)
(* exactly the keys present.  A JSON object keyed by names (a resources    *)
(* map, a methods map) is the sequence of its <<key, value>> items in      *)
(* document order, which is the order dict.items() yields them in.         *)
(***************************************************************************)
EXTENDS Integers, Sequences, FiniteSets, Bags, TLC

VARIABLES
    pc,       \* position of main: "load", "extract", "open", "write", "print", "done", "failed"
    input,    \* the file at DISCOVERY_PATH: absent, not JSON, or a JSON document
    outFile,  \* the file at ENDPOINTS_PATH: [exists, content]
    doc,      \* main's local doc
    lines,    \* main's local lines: the rows extract returned
    origin,   \* history: for each row, the resource and method it was appended for
    stdout,   \* what main has printed
    error     \* the uncaught exception that ended the run, or "none"

vars == <<pc, input, outFile, doc, lines, origin, stdout, error>>

-----------------------------------------------------------------------------
(* Bounds of the explored inputs *)

MaxNodes == 3
MaxMethods == 2

-----------------------------------------------------------------------------
(* String literals as code points *)

StrEmpty == << >>
StrDot == <<46>>
StrSpace == <<32>>
StrNewline == <<10>>
StrNA == <<78, 47, 65>>
StrGET == <<71, 69, 84>>
StrOPTIONS == <<79, 80, 84, 73, 79, 78, 83>>
StrX == <<120>>
StrY == <<121>>
StrXY == <<47, 120, 47, 121>>
StrGetName == <<103, 101, 116>>
StrListName == <<108, 105, 115, 116>>
StrLiName == <<108, 105>>
StrLongPath == [i \in 1..61 |-> IF i = 1 THEN 47 ELSE 112]
StrOldIndex == <<111, 108, 100, 10>>
StrSummaryHead == <<32, 32>>
StrSummaryTail == <<32, 101, 110, 100, 112, 111, 105, 110, 116, 115, 32, 105, 110, 100, 101, 120, 101, 100, 46>>

-----------------------------------------------------------------------------
(* Python primitives used by the script *)

EmptyDict == [k \in {} |-> 0]
EmptyMap == << >>

\* d.get(key, default)
DictGet(d, key, default) == IF key \in DOMAIN d THEN d[key] ELSE default

\* s < t on str: lexicographic by code point, a proper prefix is smaller
RECURSIVE StrLess(_, _)
StrLess(s, t) ==
    IF s = << >> THEN t # << >>
    ELSE IF t = << >> THEN FALSE
    ELSE IF Head(s) = Head(t) THEN StrLess(Tail(s), Tail(t))
    ELSE Head(s) < Head(t)

RemoveAt(items, i) == SubSeq(items, 1, i - 1) \o SubSeq(items, i + 1, Len(items))

\* sorted(d.items()): ascending by key (the keys of a dict are distinct)
RECURSIVE sorted(_)
sorted(items) ==
    IF items = << >> THEN << >>
    ELSE LET i == CHOOSE k \in DOMAIN items :
                    \A j \in DOMAIN items : ~StrLess(items[j][1], items[k][1])
         IN  <<items[i]>> \o sorted(RemoveAt(items, i))

\* variant: pads and also cuts to the width, as s[:w].ljust(w) would
ljust_truncating(s, w) ==
    IF Len(s) >= w THEN SubSeq(s, 1, w) ELSE s \o [i \in 1..(w - Len(s)) |-> 32]

\* format spec "{s:<w>s}": left-justify, pad with spaces to width w, never truncate
ljust(s, w) == IF Len(s) >= w THEN s ELSE s \o [i \in 1..(w - Len(s)) |-> 32]

\* str(n) for n >= 0
RECURSIVE decimal(_)
decimal(n) == IF n < 10 THEN <<48 + n>> ELSE decimal(n \div 10) \o <<48 + (n % 10)>>

\* sep.join(strs)
RECURSIVE join(_, _)
join(sep, strs) ==
    IF strs = << >> THEN << >>
    ELSE IF Len(strs) = 1 THEN strs[1]
    ELSE strs[1] \o sep \o join(sep, Tail(strs))

-----------------------------------------------------------------------------
(* extract *)

\* path = prefix + "." + name if prefix else name
qualifiedPath(prefix, name) ==
    IF prefix # << >> THEN prefix \o StrDot \o name ELSE name

\* method["httpMethod"] raises KeyError when the key is missing
httpMethodRaises(method) == "httpMethod" \notin DOMAIN method

\* variant: the default of the lookup is the empty string
apiPath_emptyDefault(method) == DictGet(method, "path", StrEmpty)

\* api_path = method.get("path", "N/A")
apiPath(method) == DictGet(method, "path", StrNA)

\* f"{http_method:6s} {api_path:60s} {path}.{mname}"
formatLine(http_method, api_path, path, mname) ==
    ljust(http_method, 6) \o StrSpace \o ljust(api_path, 60) \o StrSpace
        \o path \o StrDot \o mname

\* variant: the methods are walked in document order, without sorted()
methodRows_documentOrder(res, path, anc) ==
    LET ms == DictGet(res, "methods", EmptyMap)
    IN  [i \in 1..Len(ms) |->
            [text   |-> formatLine(ms[i][2].httpMethod, apiPath(ms[i][2]), path, ms[i][1]),
             anc    |-> anc,
             path   |-> path,
             mname  |-> ms[i][1],
             method |-> ms[i][2]]]

\* the inner loop: one row per method of res, in sorted order of method name.
\* Each row carries, beside its text, the loop variables it was appended under.
methodRows(res, path, anc) ==
    LET ms == sorted(DictGet(res, "methods", EmptyMap))
    IN  [i \in 1..Len(ms) |->
            [text   |-> formatLine(ms[i][2].httpMethod, apiPath(ms[i][2]), path, ms[i][1]),
             anc    |-> anc,
             path   |-> path,
             mname  |-> ms[i][1],
             method |-> ms[i][2]]]

\* extract(resources, prefix); anc is the sequence of the resource names
\* from the top level down to the mapping being walked (history only).
RECURSIVE extractT(_, _, _)
RECURSIVE extractItems(_, _, _)
\* variant: the nested resources are appended before the resource's own methods
extractItems_childrenFirst(items, prefix, anc) ==
    IF items = << >> THEN << >>
    ELSE LET name == items[1][1]
             res  == items[1][2]
             path == qualifiedPath(prefix, name)
         IN  extractT(DictGet(res, "resources", EmptyMap), path, anc \o <<name>>)
                 \o methodRows(res, path, anc \o <<name>>)
                 \o extractItems(Tail(items), prefix, anc)

\* variant: the rows of the nested resources are not added to the result
extractItems_noRecursion(items, prefix, anc) ==
    IF items = << >> THEN << >>
    ELSE LET name == items[1][1]
             res  == items[1][2]
             path == qualifiedPath(prefix, name)
         IN  methodRows(res, path, anc \o <<name>>)
                 \o extractItems(Tail(items), prefix, anc)

\* variant: a resource without a "methods" key is skipped, nested resources included
extractItems_skipWithoutMethods(items, prefix, anc) ==
    IF items = << >> THEN << >>
    ELSE LET name == items[1][1]
             res  == items[1][2]
             path == qualifiedPath(prefix, name)
         IN  (IF "methods" \notin DOMAIN res THEN << >>
              ELSE methodRows(res, path, anc \o <<name>>)
                      \o extractT(DictGet(res, "resources", EmptyMap), path, anc \o <<name>>))
                 \o extractItems(Tail(items), prefix, anc)

extractItems(items, prefix, anc) ==
    IF items = << >> THEN << >>
    ELSE LET name == items[1][1]
             res  == items[1][2]
             path == qualifiedPath(prefix, name)
         IN  methodRows(res, path, anc \o <<name>>)
                 \o extractT(DictGet(res, "resources", EmptyMap), path, anc \o <<name>>)
                 \o extractItems(Tail(items), prefix, anc)

\* variant: the resources are walked in document order, without sorted()
extractT_documentOrder(resources, prefix, anc) == extractItems(resources, prefix, anc)

extractT(resources, prefix, anc) == extractItems(sorted(resources), prefix, anc)

\* the list of strings extract returns
extract(resources, prefix) ==
    LET rows == extractT(resources, prefix, << >>)
    IN  [i \in 1..Len(rows) |-> rows[i].text]

\* the loop variables each returned row was appended under
rowOrigins(rows) ==
    [i \in 1..Len(rows) |->
        [anc |-> rows[i].anc, path |-> rows[i].path,
         mname |-> rows[i].mname, method |-> rows[i].method]]

\* whether extract(resources) ends in KeyError: some method reached by the
\* walk has no "httpMethod"
RECURSIVE extractRaises(_)
extractRaises(resources) ==
    \E k \in DOMAIN resources :
        LET res == resources[k][2]
            ms  == DictGet(res, "methods", EmptyMap)
        IN  \/ \E m \in DOMAIN ms : httpMethodRaises(ms[m][2])
            \/ extractRaises(DictGet(res, "resources", EmptyMap))

-----------------------------------------------------------------------------
(* main *)

\* variant: no newline is added after the joined rows
fileContent_noTrailingNewline(ls) == join(StrNewline, ls)

\* "\n".join(lines) + "\n"
fileContent(ls) == join(StrNewline, ls) \o StrNewline

\* f"  {len(lines)} endpoints indexed."
summary(ls) == StrSummaryHead \o decimal(Len(ls)) \o StrSummaryTail

\* open(DISCOVERY_PATH) raises FileNotFoundError
LoadMissing ==
    /\ pc = "load"
    /\ input.kind = "absent"
    /\ pc' = "failed"
    /\ error' = "FileNotFoundError"
    /\ UNCHANGED <<input, outFile, doc, lines, origin, stdout>>

\* variant: a document that does not parse is taken as the empty document
LoadInvalid_fallback ==
    /\ pc = "load"
    /\ input.kind = "invalid"
    /\ doc' = EmptyDict
    /\ pc' = "extract"
    /\ UNCHANGED <<input, outFile, lines, origin, stdout, error>>

\* json.load(f) raises JSONDecodeError
LoadInvalid ==
    /\ pc = "load"
    /\ input.kind = "invalid"
    /\ pc' = "failed"
    /\ error' = "JSONDecodeError"
    /\ UNCHANGED <<input, outFile, doc, lines, origin, stdout>>

\* doc = json.load(f)
Load ==
    /\ pc = "load"
    /\ input.kind = "json"
    /\ doc' = input.doc
    /\ pc' = "extract"
    /\ UNCHANGED <<input, outFile, lines, origin, stdout, error>>

\* lines = extract(doc.get("resources", {})), ending in KeyError
ExtractFail ==
    /\ pc = "extract"
    /\ extractRaises(DictGet(doc, "resources", EmptyMap))
    /\ pc' = "failed"
    /\ error' = "KeyError"
    /\ UNCHANGED <<input, outFile, doc, lines, origin, stdout>>

\* lines = extract(doc.get("resources", {}))
Extract ==
    /\ pc = "extract"
    /\ ~extractRaises(DictGet(doc, "resources", EmptyMap))
    /\ lines' = extract(DictGet(doc, "resources", EmptyMap), StrEmpty)
    /\ origin' = rowOrigins(extractT(DictGet(doc, "resources", EmptyMap), StrEmpty, << >>))
    /\ pc' = "open"
    /\ UNCHANGED <<input, outFile, doc, stdout, error>>

\* open(ENDPOINTS_PATH, "w"): creates or truncates the file
OpenOut ==
    /\ pc = "open"
    /\ outFile' = [exists |-> TRUE, content |-> StrEmpty]
    /\ pc' = "write"
    /\ UNCHANGED <<input, doc, lines, origin, stdout, error>>

\* f.write("\n".join(lines) + "\n"), and the close at the end of the with block
WriteOut ==
    /\ pc = "write"
    /\ outFile' = [exists |-> TRUE, content |-> outFile.content \o fileContent(lines)]
    /\ pc' = "print"
    /\ UNCHANGED <<input, doc, lines, origin, stdout, error>>

\* print(f"  {len(lines)} endpoints indexed.")
PrintCount ==
    /\ pc = "print"
    /\ stdout' = stdout \o summary(lines) \o StrNewline
    /\ pc' = "done"
    /\ UNCHANGED <<input, outFile, doc, lines, origin, error>>

Next ==
    \/ LoadMissing
    \/ LoadInvalid
    \/ Load
    \/ ExtractFail
    \/ Extract
    \/ OpenOut
    \/ WriteOut
    \/ PrintCount

-----------------------------------------------------------------------------
(* The explored inputs *)

Names == {StrEmpty, StrX, StrY}
MethodNames == {StrGetName, StrListName, StrLiName}

\* method specs: with and without "path", a verb and a path wider than
\* their columns, and one that lacks the required "httpMethod"
MethodSpecs ==
    { [httpMethod |-> StrGET],
      [httpMethod |-> StrGET, path |-> StrXY],
      [httpMethod |-> StrOPTIONS, path |-> StrXY],
      [httpMethod |-> StrGET, path |-> StrLongPath],
      [path |-> StrXY] }

Keys(items) == {items[i][1] : i \in DOMAIN items}

\* methods maps of exactly n entries with distinct names, in any document order
RECURSIVE MethodMaps(_)
MethodMaps(n) ==
    IF n = 0 THEN {EmptyMap}
    ELSE UNION { { <<<<k, m>>>> \o rest : k \in MethodNames \ Keys(rest), m \in MethodSpecs } :
                    rest \in MethodMaps(n - 1) }

\* one top-level resource "x" carrying every methods map of up to MaxMethods
\* entries, or none; its "resources" key absent or empty
MethodForests ==
    { <<<<StrX, mp @@ rp>>>> :
        mp \in {EmptyDict} \cup { [methods |-> ms] : ms \in UNION { MethodMaps(n) : n \in 0..MaxMethods } },
        rp \in {EmptyDict, [resources |-> EmptyMap]} }

\* what a node of the tree family carries: no "methods" key, or two methods
\* listed in descending order of name
TreeMethodParts ==
    { EmptyDict,
      [methods |-> << <<StrListName, [httpMethod |-> StrGET, path |-> StrXY]>>,
                      <<StrGetName, [httpMethod |-> StrGET]>> >>] }

\* resources maps of exactly n nodes in all, of every shape, with sibling
\* names distinct and in any document order
RECURSIVE TreeForests(_)
TreeNodes(n) ==
    { mp @@ rp :
        mp \in TreeMethodParts,
        rp \in IF n = 1 THEN {EmptyDict}
               ELSE { [resources |-> f] : f \in TreeForests(n - 1) } }

TreeForests(n) ==
    IF n = 0 THEN {EmptyMap}
    ELSE UNION { UNION { { <<<<name, node>>>> \o rest :
                              name \in Names \ Keys(rest), node \in TreeNodes(i) } :
                            rest \in TreeForests(n - i) } :
                    i \in 1..n }

\* the nested document of the specification's testable properties
NestedExample ==
    << <<StrX, [methods   |-> << <<StrGetName, [httpMethod |-> StrGET]>> >>,
                resources |-> << <<StrY, [methods |-> << <<StrListName,
                                    [httpMethod |-> StrGET, path |-> StrXY]>> >>]>> >>]>> >>

Docs ==
    {EmptyDict} \cup
    { [resources |-> f] :
        f \in MethodForests \cup {NestedExample} \cup UNION { TreeForests(n) : n \in 0..MaxNodes } }

Inputs ==
    { [kind |-> "absent"], [kind |-> "invalid"] } \cup { [kind |-> "json", doc |-> d] : d \in Docs }

OutFiles ==
    { [exists |-> FALSE, content |-> StrEmpty], [exists |-> TRUE, content |-> StrOldIndex] }

Init ==
    /\ pc = "load"
    /\ input \in Inputs
    /\ outFile \in OutFiles
    /\ doc = EmptyDict
    /\ lines = << >>
    /\ origin = << >>
    /\ stdout = StrEmpty
    /\ error = "none"

Spec == Init /\ [][Next]_vars

-----------------------------------------------------------------------------
(* Vocabulary of the properties *)

Extracted == pc \in {"open", "write", "print", "done"}

TopResources == DictGet(doc, "resources", EmptyMap)

IsStrictPrefix(p, q) == Len(p) < Len(q) /\ SubSeq(q, 1, Len(p)) = p

Max(a, b) == IF a >= b THEN a ELSE b

Spaces(n) == [i \in 1..n |-> 32]

\* the total number of entries of the methods maps of a resources map, at every depth
RECURSIVE MethodCount(_)
MethodCount(resources) ==
    IF resources = << >> THEN 0
    ELSE LET res == resources[1][2]
         IN  (IF "methods" \in DOMAIN res THEN Len(res.methods) ELSE 0)
                 + (IF "resources" \in DOMAIN res THEN MethodCount(res.resources) ELSE 0)
                 + MethodCount(Tail(resources))

\* every resource node of a resources map, with the names leading to it
RECURSIVE NodesAt(_, _)
NodesAt(resources, anc) ==
    UNION { LET here == anc \o <<resources[k][1]>>
                res  == resources[k][2]
            IN  {[anc |-> here, res |-> res]}
                    \cup (IF "resources" \in DOMAIN res THEN NodesAt(res.resources, here) ELSE {}) :
            k \in DOMAIN resources }

\* the rows appended for the methods of the resource reached by the names anc
OwnRows(anc) == {i \in DOMAIN origin : origin[i].anc = anc}

\* the rows appended for the resources nested under it
NestedRows(anc) == {i \in DOMAIN origin : IsStrictPrefix(anc, origin[i].anc)}

\* the qualified name of row i: what follows the two padded columns
QualifiedNameOf(i) ==
    LET h == origin[i].method.httpMethod
        p == DictGet(origin[i].method, "path", StrNA)
    IN  SubSeq(lines[i], Max(Len(h), 6) + Max(Len(p), 60) + 3, Len(lines[i]))

\* the path column of row i: between the verb column and the qualified name,
\* without the padding
RECURSIVE RStrip(_)
RStrip(s) == IF s # << >> /\ s[Len(s)] = 32 THEN RStrip(SubSeq(s, 1, Len(s) - 1)) ELSE s

PathColumnOf(i) ==
    LET h  == origin[i].method.httpMethod
        qn == origin[i].path \o StrDot \o origin[i].mname
    IN  RStrip(SubSeq(lines[i], Max(Len(h), 6) + 2, Len(lines[i]) - Len(qn) - 1))

\* s.split(sep) for a one-character sep
RECURSIVE Split(_, _)
Split(s, c) ==
    IF \A k \in DOMAIN s : s[k] # c THEN <<s>>
    ELSE LET k == CHOOSE m \in DOMAIN s : s[m] = c /\ \A n \in 1..(m - 1) : s[n] # c
         IN  <<SubSeq(s, 1, k - 1)>> \o Split(SubSeq(s, k + 1, Len(s)), c)

\* int(digits)
RECURSIVE ParseNat(_)
ParseNat(ds) == IF ds = << >> THEN 0 ELSE 10 * ParseNat(SubSeq(ds, 1, Len(ds) - 1)) + (ds[Len(ds)] - 48)

\* the count in a printed summary line "  <count> endpoints indexed.\n"
PrintedCount(out) ==
    LET words == Split(SubSeq(out, 3, Len(out)), 32) IN ParseNat(words[1])

IsSummaryLine(out) ==
    /\ Len(out) > Len(StrSummaryHead) + Len(StrSummaryTail) + 1
    /\ SubSeq(out, 1, 2) = StrSummaryHead
    /\ SubSeq(out, Len(out) - Len(StrSummaryTail), Len(out)) = StrSummaryTail \o StrNewline
    /\ \A k \in 3..(Len(out) - Len(StrSummaryTail) - 1) : out[k] \in 48..57

-----------------------------------------------------------------------------
(* C1: among the resources of one mapping, at any depth, every row of the  *)
(* resource with the smaller name (its methods and everything nested in    *)
(* it) comes before every row of the resource with the larger name,        *)
(* whatever their order in the document.                                   *)
C1_SiblingsInNameOrder ==
    \A i, j \in DOMAIN origin :
        \A k \in 1..Len(origin[i].anc) :
            ( /\ k <= Len(origin[j].anc)
              /\ SubSeq(origin[i].anc, 1, k - 1) = SubSeq(origin[j].anc, 1, k - 1)
              /\ StrLess(origin[i].anc[k], origin[j].anc[k]) )
            => i < j

\* a finished run on a document that lists "y" before "x", where "x" has
\* rows of a nested resource and "y" has rows of its own
C1_Witness ==
    /\ pc = "done"
    /\ Len(TopResources) = 2
    /\ TopResources[1][1] = StrY
    /\ TopResources[2][1] = StrX
    /\ \E i, j \in DOMAIN origin :
          /\ Len(origin[i].anc) = 2
          /\ origin[i].anc[1] = StrX
          /\ origin[j].anc = <<StrY>>

(* C2: the rows of a resource's own methods come before every row of the   *)
(* resources nested in it; the nested example document yields exactly the  *)
(* row of x.get with path N/A and then the row of x.y.list with path /x/y. *)
C2_MethodsBeforeChildren ==
    /\ \A i, j \in DOMAIN origin :
          IsStrictPrefix(origin[i].anc, origin[j].anc) => i < j
    /\ (Extracted /\ TopResources = NestedExample) =>
          lines = << StrGET \o Spaces(3) \o StrSpace \o StrNA \o Spaces(57) \o StrSpace
                        \o StrX \o StrDot \o StrGetName,
                     StrGET \o Spaces(3) \o StrSpace \o StrXY \o Spaces(56) \o StrSpace
                        \o StrX \o StrDot \o StrY \o StrDot \o StrListName >>

\* a finished run on the nested example document
C2_Witness ==
    /\ pc = "done"
    /\ TopResources = NestedExample
    /\ Len(lines) = 2

(* C3: extract returns as many rows as there are method entries in the     *)
(* document, at every depth, and main prints that number.                  *)
C3_LineCount ==
    /\ Extracted => Len(lines) = MethodCount(TopResources)
    /\ pc = "done" =>
          /\ IsSummaryLine(stdout)
          /\ PrintedCount(stdout) = MethodCount(TopResources)

\* a finished run that printed the count of a document with nested methods
C3_Witness ==
    /\ pc = "done"
    /\ PrintedCount(stdout) >= 4
    /\ \E i \in DOMAIN origin : Len(origin[i].anc) >= 2

(* C4: the output file changes only in the write step, which is reached    *)
(* only after the document was loaded and extract returned; a run that     *)
(* fails leaves the output file as it was.                                 *)
C4_WriteOnlyAfterLoadAndExtract ==
    [][ /\ (outFile' # outFile) =>
              /\ pc \in {"open", "write"}
              /\ input.kind = "json"
              /\ doc = input.doc
              /\ ~extractRaises(TopResources)
              /\ lines = extract(TopResources, StrEmpty)
        /\ (pc' = "failed") => (outFile' = outFile /\ pc \in {"load", "extract"})
        /\ (pc \in {"load", "extract", "failed"}) => outFile' = outFile ]_vars

\* a run that failed on a document that is not JSON, the old index still in place
C4_Witness ==
    /\ pc = "failed"
    /\ error = "JSONDecodeError"
    /\ outFile = [exists |-> TRUE, content |-> StrOldIndex]

(* C5: the qualified name of every row is the names of the resources from  *)
(* the top level down to the method's resource, joined by ".", then "."    *)
(* and the method name, also when a resource name is the empty string.     *)
C5_QualifiedNameJoinsAncestors ==
    \A i \in DOMAIN origin :
        QualifiedNameOf(i) = join(StrDot, origin[i].anc) \o StrDot \o origin[i].mname

(* C6 as stated: in every row the path column starts at offset 7 and the   *)
(* qualified name at offset 68, for every httpMethod and path.             *)
C6_FixedOffsets ==
    \A i \in DOMAIN origin :
        LET row == lines[i]
            h   == origin[i].method.httpMethod
            p   == DictGet(origin[i].method, "path", StrNA)
            qn  == origin[i].path \o StrDot \o origin[i].mname
        IN  /\ SubSeq(row, 1, Len(h)) = h
            /\ SubSeq(row, 8, 7 + Len(p)) = p
            /\ SubSeq(row, 69, Len(row)) = qn

(* C6 as amended: httpMethod is padded, never cut, to width 6 and path to  *)
(* width 60, so the path column starts at offset max(6, len(httpMethod))   *)
(* + 1 and the qualified name at max(6, len(httpMethod)) + max(60,         *)
(* len(path)) + 2; these are 7 and 68 when httpMethod has at most 6 and    *)
(* path at most 60 characters.                                             *)
C6_PaddedColumns ==
    \A i \in DOMAIN origin :
        LET row == lines[i]
            h   == origin[i].method.httpMethod
            p   == DictGet(origin[i].method, "path", StrNA)
            qn  == origin[i].path \o StrDot \o origin[i].mname
            wh  == Max(Len(h), 6)
            wp  == Max(Len(p), 60)
        IN  /\ row = h \o Spaces(wh - Len(h)) \o StrSpace \o p \o Spaces(wp - Len(p))
                        \o StrSpace \o qn
            /\ SubSeq(row, wh + 2, wh + 1 + Len(p)) = p
            /\ SubSeq(row, wh + wp + 3, Len(row)) = qn
            /\ (Len(h) <= 6 /\ Len(p) <= 60) =>
                  /\ SubSeq(row, 8, 7 + Len(p)) = p
                  /\ SubSeq(row, 69, Len(row)) = qn

\* a finished run with a row whose httpMethod is wider than its column and
\* a row whose httpMethod and path both fit theirs
C6_Witness ==
    /\ pc = "done"
    /\ \E i \in DOMAIN origin : Len(origin[i].method.httpMethod) > 6
    /\ \E i \in DOMAIN origin : Len(origin[i].method.httpMethod) <= 6
                                  /\ Len(DictGet(origin[i].method, "path", StrNA)) <= 60

(* C7: the rows of the methods of one resource are in strictly ascending   *)
(* order of method name, whatever the order of the methods map.            *)
C7_MethodsInNameOrder ==
    \A i, j \in DOMAIN origin :
        (i < j /\ origin[i].anc = origin[j].anc) => StrLess(origin[i].mname, origin[j].mname)

\* a finished run on a resource whose methods map lists "list" before "get"
C7_Witness ==
    /\ pc = "done"
    /\ \E n \in NodesAt(TopResources, << >>) :
          /\ "methods" \in DOMAIN n.res
          /\ Len(n.res.methods) = 2
          /\ StrLess(n.res.methods[2][1], n.res.methods[1][1])
          /\ Cardinality(OwnRows(n.anc)) = 2

(* C8: with the resources mapping empty or absent, extract returns no row, *)
(* the output file is a single newline and the printed count is 0;         *)
(* otherwise the file is the rows joined by newline and one final newline. *)
C8_FileContent ==
    pc = "done" =>
        /\ outFile.exists
        /\ TopResources = EmptyMap =>
              /\ lines = << >>
              /\ outFile.content = StrNewline
              /\ PrintedCount(stdout) = 0
        /\ lines # << >> => Split(outFile.content, 10) = lines \o <<StrEmpty>>

\* a finished run on a document without the "resources" field
C8_Witness ==
    /\ pc = "done"
    /\ "resources" \notin DOMAIN doc
    /\ outFile.content = StrNewline

(* C9: a resource without a methods map, a resources map, or both never    *)
(* makes extract fail; each missing map counts as empty, so every resource *)
(* contributes exactly the rows of the maps it has, and so do its siblings.*)
C9_MissingMapsAreEmpty ==
    /\ (pc = "failed" /\ error = "KeyError") =>
          \E n \in NodesAt(TopResources, << >>) :
              /\ "methods" \in DOMAIN n.res
              /\ \E m \in DOMAIN n.res.methods : "httpMethod" \notin DOMAIN n.res.methods[m][2]
    /\ Extracted =>
          \A n \in NodesAt(TopResources, << >>) :
              /\ Cardinality(OwnRows(n.anc)) =
                    (IF "methods" \in DOMAIN n.res THEN Len(n.res.methods) ELSE 0)
              /\ Cardinality(NestedRows(n.anc)) =
                    (IF "resources" \in DOMAIN n.res THEN MethodCount(n.res.resources) ELSE 0)

\* a finished run on a document with a resource that has neither map, one
\* with only nested resources that have rows, and rows of a sibling
C9_Witness ==
    /\ pc = "done"
    /\ \E n \in NodesAt(TopResources, << >>) : DOMAIN n.res = {}
    /\ \E n \in NodesAt(TopResources, << >>) :
          DOMAIN n.res = {"resources"} /\ NestedRows(n.anc) # {}
    /\ \E n \in NodesAt(TopResources, << >>) :
          DOMAIN n.res = {"methods"} /\ OwnRows(n.anc) # {}

(* C10: the path column of a row is "N/A" when the method has no path      *)
(* field, and the field's value unchanged when it has one.                 *)
C10_PathColumn ==
    \A i \in DOMAIN origin :
        PathColumnOf(i) = (IF "path" \in DOMAIN origin[i].method
                           THEN origin[i].method.path ELSE StrNA)

\* a finished run with a row of a method without path and a row of one with
C10_Witness ==
    /\ pc = "done"
    /\ \E i \in DOMAIN origin : "path" \notin DOMAIN origin[i].method
    /\ \E i \in DOMAIN origin : "path" \in DOMAIN origin[i].method
                                  /\ Len(origin[i].method.path) > 60

=============================================================================
